---- MODULE Spec2Model ----
(***************************************************************************)
(* The array part of the TruffleRuby C extension bridge                    *)
(* (src/main/c/cext/array.c): native handles, invocation forwarding to the *)
(* managed Array, pointer materialization, and the rb_ary_* surface.       *)
(*                                                                         *)
(* A managed value is a pair <<kind, n>>: <<"nil", 0>>, <<"int", n>> or    *)
(* <<"ary", id>>, id an index of heap.  A native handle (VALUE) is an      *)
(* integer: a tagged immediate or a reference handle.                      *)
(***************************************************************************)
EXTENDS Integers, Sequences, FiniteSets

VARIABLES heap, bufs, call

vars == <<heap, bufs, call>>

\* ---------------------------------------------------------------- bounds
MaxArrays == 2      \* managed arrays alive at once
MaxLen == 3         \* elements per array
MaxVal == 1         \* element values are the fixnums 0..MaxVal
MaxAliases == 2     \* reference handles one object may be wrapped as
MaxBufs == 1        \* materialized pointer buffers alive at once

\* ------------------------------------------------- handles (Handle Table)
QnilHandle == 8

Nil == <<"nil", 0>>
IntV(n) == <<"int", n>>
AryV(id) == <<"ary", id>>

LONG2FIX(i) == 2 * i + 1
FIX2LONG(h) == (h - 1) \div 2

RefHandle(id, k) == 16 * (id * MaxAliases + k)
RefId(h) == (h \div 16) \div MaxAliases

\* rb_tr_unwrap: the managed value a handle stands for.
rb_tr_unwrap(h) ==
  IF h = QnilHandle THEN Nil
  ELSE IF h % 2 = 1 THEN IntV(FIX2LONG(h))
  ELSE AryV(RefId(h))

\* rb_tr_wrap: the handles a managed value may be wrapped as (immediates have
\* exactly one; an object may get any of its reference handles).
rb_tr_wrap(v) ==
  IF v[1] = "nil" THEN {QnilHandle}
  ELSE IF v[1] = "int" THEN {LONG2FIX(v[2])}
  ELSE {RefHandle(v[2], k) : k \in 0..(MaxAliases - 1)}

\* ------------------------------------------------------ sequence helpers
Front(s) == SubSeq(s, 1, Len(s) - 1)
Rest(s) == SubSeq(s, 2, Len(s))
Last(s) == s[Len(s)]
Reverse(s) == [i \in 1..Len(s) |-> s[Len(s) + 1 - i]]
RemoveAt(s, i) == SubSeq(s, 1, i - 1) \o SubSeq(s, i + 1, Len(s))
\* rotate left by n (any integer): new[i] = old[(i + n) mod len], 0-based
RotateLeft(s, n) ==
  IF Len(s) = 0 THEN s
  ELSE [i \in 1..Len(s) |-> s[((i - 1 + n) % Len(s)) + 1]]
\* stable insertion of x into an ascending sequence
RECURSIVE InsertSorted(_, _)
InsertSorted(s, x) ==
  IF s = << >> THEN <<x>>
  ELSE IF x[2] < s[1][2] THEN <<x>> \o s
  ELSE <<s[1]>> \o InsertSorted(Rest(s), x)
RECURSIVE SortSeq(_)
SortSeq(s) == IF s = << >> THEN s ELSE InsertSorted(SortSeq(Front(s)), Last(s))
RECURSIVE IndexOf(_, _, _)
IndexOf(s, v, i) ==
  IF i > Len(s) THEN 0 ELSE IF s[i] = v THEN i ELSE IndexOf(s, v, i + 1)

\* ------------------------------------------ managed Array (the runtime)
\* Each method takes the heap, the receiver's id and its arguments, and gives
\* [heap, res, out]: out = "raise" is an exception unwinding to the caller.
NewArray(elems) == [elems |-> elems, frozen |-> FALSE]
Ok(hp, res) == [heap |-> hp, res |-> res, out |-> "ok"]
Raise(hp) == [heap |-> hp, res |-> Nil, out |-> "raise"]
SetElems(hp, id, e) == [hp EXCEPT ![id].elems = e]
\* a method that modifies its receiver raises on a frozen one
Modify(hp, id, e, res) ==
  IF hp[id].frozen THEN Raise(hp) ELSE Ok(SetElems(hp, id, e), res)

Array_new(hp) == Ok(Append(hp, NewArray(<< >>)), AryV(Len(hp) + 1))
Array_push(hp, id, v) == Modify(hp, id, Append(hp[id].elems, v), AryV(id))
Array_pop(hp, id) ==
  LET e == hp[id].elems IN
  IF e = << >> THEN Modify(hp, id, e, Nil) ELSE Modify(hp, id, Front(e), Last(e))
Array_shift(hp, id) ==
  LET e == hp[id].elems IN
  IF e = << >> THEN Modify(hp, id, e, Nil) ELSE Modify(hp, id, Rest(e), e[1])
Array_unshift(hp, id, v) == Modify(hp, id, <<v>> \o hp[id].elems, AryV(id))
Array_clear(hp, id) == Modify(hp, id, << >>, AryV(id))
Array_reverse_bang(hp, id) == Modify(hp, id, Reverse(hp[id].elems), AryV(id))
Array_sort_bang(hp, id) == Modify(hp, id, SortSeq(hp[id].elems), AryV(id))
Array_rotate_bang(hp, id, n) == Modify(hp, id, RotateLeft(hp[id].elems, n), AryV(id))
Array_concat(hp, id, b) ==
  Modify(hp, id, hp[id].elems \o hp[b].elems, AryV(id))
Array_plus(hp, id, b) ==
  Ok(Append(hp, NewArray(hp[id].elems \o hp[b].elems)), AryV(Len(hp) + 1))
Array_delete(hp, id, v) ==
  LET e == hp[id].elems
      i == IndexOf(e, v, 1) IN
  IF i = 0 THEN Modify(hp, id, e, Nil) ELSE Modify(hp, id, RemoveAt(e, i), v)
Array_delete_at(hp, id, n) ==
  LET e == hp[id].elems
      i == IF n < 0 THEN n + Len(e) ELSE n IN
  IF i < 0 \/ i >= Len(e) THEN Modify(hp, id, e, Nil)
  ELSE Modify(hp, id, RemoveAt(e, i + 1), e[i + 1])
Array_aref(hp, id, n) ==
  LET e == hp[id].elems
      i == IF n < 0 THEN n + Len(e) ELSE n IN
  IF i < 0 \/ i >= Len(e) THEN Ok(hp, Nil) ELSE Ok(hp, e[i + 1])
Array_aset(hp, id, n, v) ==
  LET e == hp[id].elems
      i == IF n < 0 THEN n + Len(e) ELSE n IN
  IF hp[id].frozen \/ i < 0 THEN Raise(hp)
  ELSE IF i < Len(e) THEN Ok(SetElems(hp, id, [e EXCEPT ![i + 1] = v]), v)
  ELSE Ok(SetElems(hp, id, e \o [j \in 1..(i - Len(e)) |-> Nil] \o <<v>>), v)
Object_freeze(hp, id) == Ok([hp EXCEPT ![id].frozen = TRUE], AryV(id))


\* ------------------------------------- invocation forwarding (dispatcher)
\* What a C function hands back: [heap, out, ret]; ret is the VALUE returned
\* (0 when the call unwound or the function is void).
Unwound(r) == [heap |-> r.heap, out |-> "raise", ret |-> 0]
\* RUBY_INVOKE / rb_tr_wrap(polyglot_invoke(...)): the result is wrapped.
RUBY_INVOKE(r) ==
  IF r.out = "raise" THEN {Unwound(r)}
  ELSE {[heap |-> r.heap, out |-> "ok", ret |-> w] : w \in rb_tr_wrap(r.res)}
\* RUBY_INVOKE_NO_WRAP: the result is dropped, the function returns ret.
RUBY_INVOKE_NO_WRAP(r, ret) ==
  IF r.out = "raise" THEN {Unwound(r)}
  ELSE {[heap |-> r.heap, out |-> "ok", ret |-> ret]}

Self(array) == rb_tr_unwrap(array)[2]

\* ------------------------------------------------ array.c, the functions
rb_ary_new(hp) == RUBY_INVOKE(Array_new(hp))

rb_ary_new_capa(hp, capacity) == RUBY_INVOKE(Array_new(hp))

rb_ary_push(hp, array, value) ==
  RUBY_INVOKE_NO_WRAP(Array_push(hp, Self(array), rb_tr_unwrap(value)), array)

\* (mutant) pop takes from the front
rb_ary_pop_shift(hp, array) == RUBY_INVOKE(Array_shift(hp, Self(array)))

rb_ary_pop(hp, array) == RUBY_INVOKE(Array_pop(hp, Self(array)))

rb_ary_sort_bang(hp, array) == RUBY_INVOKE(Array_sort_bang(hp, Self(array)))

\* (mutant) the index goes to the dispatcher untagged
rb_ary_store_untagged(hp, array, index, value) ==
  RUBY_INVOKE_NO_WRAP(
    Array_aset(hp, Self(array), rb_tr_unwrap(index)[2], rb_tr_unwrap(value)), 0)

rb_ary_store(hp, array, index, value) ==
  RUBY_INVOKE_NO_WRAP(
    Array_aset(hp, Self(array), rb_tr_unwrap(LONG2FIX(index))[2], rb_tr_unwrap(value)), 0)

rb_ary_entry(hp, array, index) == RUBY_INVOKE(Array_aref(hp, Self(array), index))

rb_ary_unshift(hp, array, value) ==
  RUBY_INVOKE(Array_unshift(hp, Self(array), rb_tr_unwrap(value)))

rb_ary_clear(hp, array) == RUBY_INVOKE(Array_clear(hp, Self(array)))

\* (mutant) delete hands back its argument, as push does
rb_ary_delete_arg(hp, array, value) ==
  RUBY_INVOKE_NO_WRAP(Array_delete(hp, Self(array), rb_tr_unwrap(value)), value)

rb_ary_delete(hp, array, value) ==
  RUBY_INVOKE(Array_delete(hp, Self(array), rb_tr_unwrap(value)))

\* (mutant) the index is tagged, and the raw call does not untag it
rb_ary_delete_at_tagged(hp, array, n) ==
  RUBY_INVOKE(Array_delete_at(hp, Self(array), LONG2FIX(n)))

rb_ary_delete_at(hp, array, n) == RUBY_INVOKE(Array_delete_at(hp, Self(array), n))

\* (mutant) "reverse" for "reverse!": a reversed copy is returned
rb_ary_reverse_copy(hp, array) ==
  RUBY_INVOKE(Ok(Append(hp, NewArray(Reverse(hp[Self(array)].elems))), AryV(Len(hp) + 1)))

rb_ary_reverse(hp, array) == RUBY_INVOKE(Array_reverse_bang(hp, Self(array)))

rb_ary_shift(hp, array) == RUBY_INVOKE(Array_shift(hp, Self(array)))

rb_ary_concat(hp, a, b) == RUBY_INVOKE(Array_concat(hp, Self(a), Self(b)))

\* (mutant) "concat" for "+"
rb_ary_plus_concat(hp, a, b) == RUBY_INVOKE(Array_concat(hp, Self(a), Self(b)))

rb_ary_plus(hp, a, b) == RUBY_INVOKE(Array_plus(hp, Self(a), Self(b)))

\* (mutant) no special case for n = 0
rb_ary_rotate_always(hp, array, n) == RUBY_INVOKE(Array_rotate_bang(hp, Self(array), n))

rb_ary_rotate(hp, array, n) ==
  IF n # 0 THEN RUBY_INVOKE(Array_rotate_bang(hp, Self(array), n))
  ELSE {[heap |-> hp, out |-> "ok", ret |-> QnilHandle]}

rb_obj_freeze(hp, object) == RUBY_INVOKE(Object_freeze(hp, Self(object)))

rb_ary_freeze(hp, array) == rb_obj_freeze(hp, array)

\* the loop of rb_ary_new_from_args / rb_ary_new_from_values, from i on
RECURSIVE StoreLoop(_, _, _, _, _)
StoreLoop(hp, array, values, i, n) ==
  IF ~(i < n) THEN {[heap |-> hp, out |-> "ok", ret |-> array]}
  ELSE UNION {IF s.out = "raise" THEN {s}
              ELSE StoreLoop(s.heap, array, values, i + 1, n)
              : s \in rb_ary_store(hp, array, i, values[i + 1])}

rb_ary_new_from_args(hp, n, args) ==
  UNION {IF c.out = "raise" THEN {c} ELSE StoreLoop(c.heap, c.ret, args, 0, n)
         : c \in rb_ary_new_capa(hp, n)}

rb_ary_new_from_values(hp, n, values) ==
  UNION {IF c.out = "raise" THEN {c} ELSE StoreLoop(c.heap, c.ret, values, 0, n)
         : c \in rb_ary_new_capa(hp, n)}

\* rb_check_array_type: the value itself when it is an Array, else nil.
rb_check_array_type(hp, x) ==
  IF rb_tr_unwrap(x)[1] = "ary" THEN rb_tr_wrap(rb_tr_unwrap(x)) ELSE {QnilHandle}

\* (mutant) the test of NIL_P is the wrong way round
rb_ary_to_ary_inverted(hp, array) ==
  UNION {IF tmp = QnilHandle THEN {[heap |-> hp, out |-> "ok", ret |-> tmp]}
         ELSE rb_ary_new_from_args(hp, 1, <<array>>)
         : tmp \in rb_check_array_type(hp, array)}

rb_ary_to_ary(hp, array) ==
  UNION {IF tmp # QnilHandle THEN {[heap |-> hp, out |-> "ok", ret |-> tmp]}
         ELSE rb_ary_new_from_args(hp, 1, <<array>>)
         : tmp \in rb_check_array_type(hp, array)}

\* rb_ary_cat: the n items go through a temporary array (rb_ary_new4), which
\* nothing refers to once the call is over; the collector takes it back.
rb_ary_cat(hp, array, cat, n) ==
  UNION {IF t.out = "raise" THEN {t}
         ELSE {[r EXCEPT !.heap = SubSeq(r.heap, 1, Len(hp))]
               : r \in RUBY_INVOKE(Array_concat(t.heap, Self(array), Self(t.ret)))}
         : t \in rb_ary_new_from_values(hp, n, cat)}

\* RARRAY_PTR_IMPL: the native buffer, one handle-sized slot per element.
RARRAY_PTR(hp, id) == [i \in 1..Len(hp[id].elems) |-> hp[id].elems[i]]
\* (mutant) the buffer is one slot short
RARRAY_PTR_IMPL_short(hp, array) ==
  LET raw == RARRAY_PTR(hp, Self(array)) IN
  [src |-> Self(array),
   data |-> [i \in 1..(Len(raw) - 1) |-> CHOOSE w \in rb_tr_wrap(raw[i]) : TRUE]]

RARRAY_PTR_IMPL(hp, array) ==
  LET raw == RARRAY_PTR(hp, Self(array)) IN
  [src |-> Self(array),
   data |-> [i \in 1..Len(raw) |-> CHOOSE w \in rb_tr_wrap(raw[i]) : TRUE]]

\* ------------------------------------------------------------ the inputs
ArrayHandles == {RefHandle(id, k) : id \in 1..Len(heap), k \in 0..(MaxAliases - 1)}
ValueHandles == {LONG2FIX(n) : n \in 0..MaxVal}
Indexes == (0 - MaxLen - 1)..MaxLen
Counts == (0 - MaxLen)..MaxLen
ItemLists == UNION {[1..n -> ValueHandles] : n \in 0..MaxLen}
\* how many of the items of a buffer a call is told to take
Takes(items) == {n \in {Len(items) - 1, Len(items)} : n >= 0}

\* ------------------------------------------------------------- the state
NoPrev == [op |-> "none", id |-> 0, v |-> 0, pre |-> << >>, pending |-> << >>]
NoCall == [op |-> "none", h |-> 0, args |-> << >>, out |-> "ok", ret |-> 0,
           pre |-> << >>, prev |-> NoPrev]

Init == heap = << >> /\ bufs = << >> /\ call = NoCall

\* the native caller is between two calls
Idle == call.op = "none"

\* A call may leave one array more than MaxArrays; Collect takes it back.
Bounded(hp) ==
  /\ Len(hp) <= MaxArrays + 1
  /\ \A id \in 1..Len(hp) : Len(hp[id].elems) <= MaxLen

\* What the caller remembers of a call: a push or a pop that returned, and
\* the values it has pushed to that array and not yet popped.
Summary(c) ==
  IF c.out = "ok" /\ c.op = "push" THEN
    [op |-> "push", id |-> Self(c.h), v |-> c.args[1], pre |-> c.pre[Self(c.h)].elems,
     pending |-> IF c.prev.id = Self(c.h) THEN Append(c.prev.pending, c.args[1])
                 ELSE <<c.args[1]>>]
  ELSE IF c.out = "ok" /\ c.op = "pop" THEN
    [op |-> "pop", id |-> Self(c.h), v |-> c.ret, pre |-> c.pre[Self(c.h)].elems,
     pending |-> IF c.prev.id = Self(c.h) /\ c.prev.pending # << >>
                 THEN Front(c.prev.pending) ELSE << >>]
  ELSE NoPrev

\* One call of a function: results is what the function may hand back.
Invoke(op, h, args, results) ==
  /\ Idle
  /\ \E r \in results :
       /\ Bounded(r.heap)
       /\ heap' = r.heap
       /\ call' = [op |-> op, h |-> h, args |-> args, out |-> r.out, ret |-> r.ret,
                   pre |-> heap, prev |-> call.prev]
  /\ UNCHANGED bufs

\* --------------------------------------------------------- the actions
\* the caller builds at most MaxArrays arrays
New == Len(heap) < MaxArrays /\ Invoke("new", 0, << >>, rb_ary_new(heap))
NewCapa == \E n \in 0..MaxLen :
  Len(heap) < MaxArrays /\ Invoke("new_capa", 0, <<n>>, rb_ary_new_capa(heap, n))
NewFromArgs == \E items \in ItemLists :
  /\ Len(heap) < MaxArrays
  /\ Invoke("new_from_args", 0, <<Len(items)>> \o items,
            rb_ary_new_from_args(heap, Len(items), items))
NewFromValues == \E items \in ItemLists : \E n \in Takes(items) :
  /\ Len(heap) < MaxArrays
  /\ Invoke("new_from_values", 0, <<n>> \o items, rb_ary_new_from_values(heap, n, items))
Push == \E a \in ArrayHandles, v \in ValueHandles :
  Invoke("push", a, <<v>>, rb_ary_push(heap, a, v))
Pop == \E a \in ArrayHandles : Invoke("pop", a, << >>, rb_ary_pop(heap, a))
Shift == \E a \in ArrayHandles : Invoke("shift", a, << >>, rb_ary_shift(heap, a))
Unshift == \E a \in ArrayHandles, v \in ValueHandles :
  Invoke("unshift", a, <<v>>, rb_ary_unshift(heap, a, v))
Store == \E a \in ArrayHandles, i \in Indexes, v \in ValueHandles :
  /\ i <= Len(heap[Self(a)].elems)
  /\ Invoke("store", a, <<i, v>>, rb_ary_store(heap, a, i, v))
Entry == \E a \in ArrayHandles, i \in Indexes :
  Invoke("entry", a, <<i>>, rb_ary_entry(heap, a, i))
Delete == \E a \in ArrayHandles, v \in ValueHandles :
  Invoke("delete", a, <<v>>, rb_ary_delete(heap, a, v))
DeleteAt == \E a \in ArrayHandles, i \in Indexes :
  Invoke("delete_at", a, <<i>>, rb_ary_delete_at(heap, a, i))
Clear == \E a \in ArrayHandles : Invoke("clear", a, << >>, rb_ary_clear(heap, a))
Concat == \E a \in ArrayHandles, b \in ArrayHandles :
  Invoke("concat", a, <<b>>, rb_ary_concat(heap, a, b))
Plus == \E a \in ArrayHandles, b \in ArrayHandles :
  Invoke("plus", a, <<b>>, rb_ary_plus(heap, a, b))
Cat == \E a \in ArrayHandles, items \in ItemLists : \E n \in Takes(items) :
  /\ Invoke("cat", a, <<n>> \o items, rb_ary_cat(heap, a, items, n))
ReverseBang == \E a \in ArrayHandles : Invoke("reverse", a, << >>, rb_ary_reverse(heap, a))
SortBang == \E a \in ArrayHandles : Invoke("sort!", a, << >>, rb_ary_sort_bang(heap, a))
Rotate == \E a \in ArrayHandles, n \in Counts :
  Invoke("rotate", a, <<n>>, rb_ary_rotate(heap, a, n))
Freeze == \E a \in ArrayHandles : Invoke("freeze", a, << >>, rb_ary_freeze(heap, a))
ToAry == \E x \in ArrayHandles \cup ValueHandles :
  Invoke("to_ary", x, << >>, rb_ary_to_ary(heap, x))

\* materialize is also issued right after a push has returned
Materialize == \E a \in ArrayHandles :
  /\ Idle \/ (call.op = "push" /\ call.out = "ok")
  /\ Len(bufs) < MaxBufs
  /\ bufs' = Append(bufs, RARRAY_PTR_IMPL(heap, a))
  /\ call' = [op |-> "materialize", h |-> a, args |-> << >>, out |-> "ok",
              ret |-> Len(bufs) + 1, pre |-> heap,
              prev |-> IF Idle THEN call.prev ELSE Summary(call)]
  /\ UNCHANGED heap

\* The collector: an array beyond MaxArrays is one the caller has let go of.
Collect(hp) == IF Len(hp) > MaxArrays THEN SubSeq(hp, 1, MaxArrays) ELSE hp

\* the call has returned and the native caller goes on
Return ==
  /\ ~Idle
  /\ call' = NoCall
  /\ heap' = Collect(heap)
  /\ UNCHANGED bufs

\* the same, by a caller that keeps track of its pushes and pops
ReturnTracked ==
  /\ ~Idle
  /\ call' = [NoCall EXCEPT !.prev = Summary(call)]
  /\ heap' = Collect(heap)
  /\ UNCHANGED bufs

Next ==
  \/ New \/ NewCapa \/ NewFromArgs \/ NewFromValues
  \/ Push \/ Pop \/ Shift \/ Unshift \/ Store \/ Entry
  \/ Delete \/ DeleteAt \/ Clear \/ Concat \/ Plus \/ Cat
  \/ ReverseBang \/ SortBang \/ Rotate \/ Freeze \/ ToAry
  \/ Return

Spec == Init /\ [][Next]_vars

\* pushes and pops by a caller that keeps track of them
NextStack == NewFromValues \/ Freeze \/ Push \/ Pop \/ ReturnTracked

SpecStack == Init /\ [][NextStack]_vars

\* pointer buffers and the operations that change an array's length
NextPtr ==
  \/ NewFromValues \/ Materialize
  \/ Push \/ Pop \/ Shift \/ Unshift \/ DeleteAt \/ Clear \/ Concat
  \/ Return

SpecPtr == Init /\ [][NextPtr]_vars

\* ================================================================ claims
\* the array the last call was made on, and its elements before and after
Target == Self(call.h)
Old == call.pre[Target].elems
Now == heap[Target].elems
WasFrozen == call.pre[Target].frozen
Returned == call.out = "ok"
\* every array but the target is as it was, and no array was added
OthersKept ==
  /\ Len(heap) = Len(call.pre)
  /\ \A j \in 1..Len(heap) : j # Target => heap[j] = call.pre[j]
Values(items) == [i \in 1..Len(items) |-> rb_tr_unwrap(items[i])]

\* C1: rotate(a, 0) changes nothing and returns the nil sentinel, on every
\* array; rotate(a, n) with n # 0 returns on every array that is not frozen,
\* and when it returns the element that was at index i is at index
\* (i - n) mod len, nothing else has changed and the handle returned refers
\* to a.
C1_Rotate ==
  call.op = "rotate" =>
    LET n == call.args[1] IN
    IF n = 0 THEN Returned /\ call.ret = QnilHandle /\ heap = call.pre
    ELSE /\ ~WasFrozen => Returned
         /\ Returned =>
              /\ Len(Now) = Len(Old)
              /\ \A i \in 0..(Len(Old) - 1) : Now[((i - n) % Len(Old)) + 1] = Old[i + 1]
              /\ rb_tr_unwrap(call.ret) = AryV(Target)
              /\ OthersKept

\* C1 witness: a rotation by 1 of three elements that moved them
C1_Witness ==
  /\ call.op = "rotate" /\ call.args[1] = 1 /\ Returned
  /\ Len(Old) = 3 /\ Now # Old

\* the mutating operations of the surface
Mutators ==
  {"push", "pop", "shift", "unshift", "store", "delete", "delete_at", "clear",
   "concat", "cat", "reverse", "sort!", "rotate"}

\* C2: after freeze(a) every mutating operation on a, rotate(a, 0) included,
\* raises and leaves every array as it was; freeze(a) returns a.
C2_FrozenFails ==
  /\ (call.op \in Mutators /\ WasFrozen) => (call.out = "raise" /\ heap = call.pre)
  /\ call.op = "freeze" =>
       Returned /\ rb_tr_unwrap(call.ret) = AryV(Target) /\ heap[Target].frozen

\* C2 without rotate(a, 0): what does hold of a frozen array.
C2_FrozenFailsButRotateZero ==
  /\ (call.op \in Mutators /\ WasFrozen /\ ~(call.op = "rotate" /\ call.args[1] = 0))
       => (call.out = "raise" /\ heap = call.pre)
  /\ call.op = "freeze" =>
       Returned /\ rb_tr_unwrap(call.ret) = AryV(Target) /\ heap[Target].frozen

\* a buffer just materialized for a has one slot per element of a, slot i
\* holding the handle of element i; right after a push its last slot holds
\* the pushed value
C3_Fresh ==
  call.op = "materialize" =>
    LET b == bufs[call.ret] IN
    /\ b.src = Target
    /\ Len(b.data) = Len(Now)
    /\ \A i \in 1..Len(Now) : rb_tr_unwrap(b.data[i]) = Now[i]
    /\ (call.prev.op = "push" /\ call.prev.id = Target) =>
         /\ Len(b.data) = Len(call.prev.pre) + 1
         /\ rb_tr_unwrap(b.data[Len(b.data)]) = rb_tr_unwrap(call.prev.v)
\* a step leaves every buffer there is with its length and its slots
C3_Kept == \A k \in 1..Len(bufs) : Len(bufs') >= k /\ bufs'[k] = bufs[k]

C5_PushPop ==
  (call.op = "pop" /\ call.prev.id = Target) =>
    /\ call.prev.op = "push" =>
         /\ Returned
         /\ rb_tr_unwrap(call.ret) = rb_tr_unwrap(call.prev.v)
         /\ Now = call.prev.pre
    /\ call.prev.pending # << >> =>
         /\ Returned
         /\ rb_tr_unwrap(call.ret) = rb_tr_unwrap(Last(call.prev.pending))

\* C5 witness: the second of two pops gives the first of two pushed values
C5_Witness ==
  /\ call.op = "pop" /\ call.prev.op = "pop" /\ call.prev.id = Target
  /\ Len(call.prev.pending) = 1 /\ Returned
  /\ call.ret # call.prev.v

\* the operations marked "in place, returns a", and what each does to the
\* elements of its array
InPlaceOps == {"push", "unshift", "clear", "concat", "cat", "reverse", "sort!", "rotate"}
InPlaceEffect ==
  CASE call.op = "push" -> Append(Old, rb_tr_unwrap(call.args[1]))
    [] call.op = "unshift" -> <<rb_tr_unwrap(call.args[1])>> \o Old
    [] call.op = "clear" -> << >>
    [] call.op = "concat" -> Old \o call.pre[Self(call.args[1])].elems
    [] call.op = "cat" -> Old \o SubSeq(Values(Tail(call.args)), 1, call.args[1])
    [] call.op = "reverse" -> Reverse(Old)
    [] call.op = "sort!" -> SortSeq(Old)
    [] call.op = "rotate" -> RotateLeft(Old, call.args[1])

\* C4: an operation marked "in place, returns a" returns on every array that
\* is not frozen, and when it returns, its effect is on the array the handle
\* refers to, no array was added, and the handle returned refers to that array.
C4_InPlace ==
  (call.op \in InPlaceOps /\ ~(call.op = "rotate" /\ call.args[1] = 0)) =>
    /\ ~WasFrozen => Returned
    /\ Returned =>
         /\ rb_tr_unwrap(call.ret) = AryV(Target)
         /\ Now = InPlaceEffect
         /\ OthersKept

\* C4 witness: reverse changed the array and returned another handle of it
C4_Witness ==
  /\ call.op = "reverse" /\ Returned /\ Now # Old
  /\ call.ret # call.h

\* the absence cases: pop and shift of an empty array, delete of a value the
\* array does not hold, entry outside -len..len-1
Absent ==
  \/ call.op \in {"pop", "shift"} /\ Old = << >>
  \/ call.op = "delete" /\ \A i \in 1..Len(Old) : Old[i] # rb_tr_unwrap(call.args[1])
  \/ call.op = "entry" /\ (call.args[1] >= Len(Old) \/ call.args[1] < 0 - Len(Old))

\* C6: in an absence case the call returns on every array that is not frozen
\* (entry on every array), and when it returns it gives the nil sentinel and
\* has changed nothing: absence is never what makes it raise.
C6_Absence ==
  Absent =>
    /\ (call.op = "entry" \/ ~WasFrozen) => Returned
    /\ Returned => (call.ret = QnilHandle /\ heap = call.pre)

\* C6 witness: delete of a value a non-empty array does not hold
C6_Witness ==
  /\ call.op = "delete" /\ Absent /\ Old # << >> /\ Returned

\* C7: new_from_values(n, items) and new_from_args(n, ...) return a new array
\* of length n holding items[0..n-1] in order, and entry(i) on it, which
\* passes the index raw where store passed it tagged, returns items[i].
C7_NewFrom ==
  call.op \in {"new_from_values", "new_from_args"} =>
    LET n == call.args[1]
        items == Tail(call.args)
        new == Len(call.pre) + 1
    IN /\ Returned
       /\ Len(heap) = new
       /\ rb_tr_unwrap(call.ret) = AryV(new)
       /\ \A j \in 1..Len(call.pre) : heap[j] = call.pre[j]
       /\ Len(heap[new].elems) = n
       /\ \A i \in 0..(n - 1) :
            /\ heap[new].elems[i + 1] = rb_tr_unwrap(items[i + 1])
            /\ \A r \in rb_ary_entry(heap, call.ret, i) :
                 r.out = "ok" /\ r.ret = items[i + 1] /\ r.heap = heap

\* C7 witness: three items, not all the same
C7_Witness ==
  /\ call.op = "new_from_values" /\ call.args[1] = 3
  /\ call.args[2] # call.args[4]

\* C8: concat(a, b) returns on every a that is not frozen, and when it returns
\* a holds its former elements followed by b's, b is as it was when it is
\* another array, no array was added and the handle returned refers to a;
\* plus(a, b) returns a new array of that sequence and changes no array.
C8_ConcatPlus ==
  /\ call.op = "concat" =>
       LET b == Self(call.args[1]) IN
       /\ ~WasFrozen => Returned
       /\ Returned =>
            /\ Now = Old \o call.pre[b].elems
            /\ Len(Now) = Len(Old) + Len(call.pre[b].elems)
            /\ rb_tr_unwrap(call.ret) = AryV(Target)
            /\ OthersKept
  /\ call.op = "plus" =>
       LET b == Self(call.args[1])
           new == Len(call.pre) + 1
       IN /\ Returned
          /\ Len(heap) = new
          /\ rb_tr_unwrap(call.ret) = AryV(new)
          /\ heap[new].elems = Old \o call.pre[b].elems
          /\ \A j \in 1..Len(call.pre) : heap[j] = call.pre[j]

\* C8 witness: plus of two different non-empty arrays
C8_Witness ==
  /\ call.op = "plus" /\ Self(call.args[1]) # Target
  /\ Old # << >> /\ call.pre[Self(call.args[1])].elems # << >>
  /\ Old # call.pre[Self(call.args[1])].elems

\* C9: delete_at(a, i) with 0 <= i < len returns on every array that is not
\* frozen, and when it returns it gives the element that was at i, a is one
\* shorter, the elements before i are where they were and the ones after i
\* are one index down.
C9_DeleteAt ==
  (call.op = "delete_at" /\ call.args[1] >= 0 /\ call.args[1] < Len(Old)) =>
    LET i == call.args[1] IN
    /\ ~WasFrozen => Returned
    /\ Returned =>
         /\ rb_tr_unwrap(call.ret) = Old[i + 1]
         /\ Len(Now) = Len(Old) - 1
         /\ \A j \in 0..(i - 1) : Now[j + 1] = Old[j + 1]
         /\ \A j \in (i + 1)..(Len(Old) - 1) : Now[j] = Old[j + 1]
         /\ OthersKept

\* C9 witness: the first of three elements goes, and the last differs from it
C9_Witness ==
  /\ call.op = "delete_at" /\ call.args[1] = 0 /\ Returned
  /\ Len(Old) = 3 /\ Old[1] # Old[3]

\* C10: to_ary(x) returns a handle of x itself and changes nothing when the
\* array-type check on x is not nil, and else a new array holding only x.
C10_ToAry ==
  call.op = "to_ary" =>
    IF rb_check_array_type(call.pre, call.h) # {QnilHandle}
    THEN Returned /\ rb_tr_unwrap(call.ret) = rb_tr_unwrap(call.h) /\ heap = call.pre
    ELSE LET new == Len(call.pre) + 1 IN
         /\ Returned
         /\ Len(heap) = new
         /\ rb_tr_unwrap(call.ret) = AryV(new)
         /\ heap[new].elems = <<rb_tr_unwrap(call.h)>>
         /\ \A j \in 1..Len(call.pre) : heap[j] = call.pre[j]

\* C10 witness: to_ary of a non-empty array
C10_Witness ==
  /\ call.op = "to_ary" /\ rb_tr_unwrap(call.h)[1] = "ary"
  /\ heap[Target].elems # << >>

====
